---- MODULE Spec2Model ----
(***************************************************************************)
(* Model of the feed processing pipeline of eratosthenes:                  *)
(*   services/scheduler.py      ProcessingService.run_daily_processing     *)
(*   services/claude_filter.py  ClaudeFilter.filter_relevance_batch        *)
(*   services/feed_fetcher.py   FeedFetcher.fetch_feed, fetch_all_feeds    *)
(*   app.py, routes/*.py        the routes and their authentication        *)
(*   models/*.py                the tables and their unique constraints    *)
(*                                                                         *)
(* Spec        the run coordinator: invocations of run_daily_processing,   *)
(*             possibly overlapping, against one database.                 *)
(* SpecLive    Spec with weak fairness of the steps of every invocation.   *)
(* SpecFilter  one call of ClaudeFilter.filter_relevance_batch on an       *)
(*             arbitrary item list, batch by batch.                        *)
(* SpecFetch   a FeedFetcher: entering and leaving its context and calls   *)
(*             of fetch_feed on arbitrary sources and feed documents.      *)
(* SpecGather  calls of FeedFetcher.fetch_all_feeds: one task per source,  *)
(*             finishing in any order.                                     *)
(* SpecApi     the HTTP surface: the routes app.py registers, answering    *)
(*             requests with and without credentials.                      *)
(***************************************************************************)
EXTENDS Integers, Sequences, FiniteSets, TLC

(***************************************************************************)
(* Bounds of the model.                                                    *)
(***************************************************************************)
MaxDay == 2
MaxFeeds == 2
MaxItems == 11
MaxEntries == 51

(***************************************************************************)
(* Program constants.                                                      *)
(***************************************************************************)
batch_size == 10
entries_cap == 50

\* The two triggers of the pipeline: the daily cron job (app.py) and the
\* on-demand endpoint POST /api/process-feeds (routes/api.py).  Each has at
\* most one invocation in flight; the two may overlap.
Runs == {"cron", "manual"}
FeedIds == 1..MaxFeeds
None == -1

VARIABLES
  \* ---- environment and database --------------------------------------
  today,            \* datetime.utcnow().date()
  api_key,          \* os.getenv("ANTHROPIC_API_KEY") is set
  feed_sources,     \* table feed_sources: id -> [enabled, last_fetched]
  processing_logs,  \* table processing_logs: committed rows, in insert order
  feed_items,       \* table feed_items: committed rows, in insert order
  \* ---- one invocation of run_daily_processing per r in Runs ----------
  pc,               \* position of the invocation
  limit_feeds,      \* argument limit_feeds (None = -1)
  log,              \* the ProcessingLog object held by the session
  log_id,           \* row of processing_logs this invocation inserted, 0 if none
  feeds,            \* result of the enabled-feeds query (sequence of ids)
  exc,              \* exception in flight / raised, "none" if none
  exc_at,           \* the step that raised it
  tot,              \* locals total_items_fetched, total_items_relevant, api_calls
  \* ---- one call of ClaudeFilter.filter_relevance_batch ---------------
  fpc,              \* position of the call
  items,            \* argument items
  i,                \* loop variable i of filter_relevance_batch
  results,          \* local results
  responses,        \* what the external API did for each batch so far
  trace,            \* external calls and asyncio.sleep(1) waits, in order
  \* ---- one FeedFetcher ------------------------------------------------
  session,          \* self.session: "none", "open" or "closed"
  fetch_in,         \* the last call of fetch_feed: what the source served
  fetch_out,        \* the last call of fetch_feed: its outcome
  \* ---- one call of FeedFetcher.fetch_all_feeds ------------------------
  gpc,              \* position of the call
  gather_in,        \* argument feed_sources: what each source serves
  tasks,            \* the task of each source: "pending", "running", "done"
  task_results,     \* what each finished task returned or raised
  done_order,       \* the tasks in the order in which they finished
  gather_out,       \* outcome of the call
  \* ---- the HTTP surface (app.py) --------------------------------------
  request,          \* the last request received
  response          \* the answer to it

vars == <<today, api_key, feed_sources, processing_logs,
          feed_items, pc, limit_feeds, log, log_id, feeds, exc, exc_at,
          tot, fpc, items, i, results, responses, trace,
          session, fetch_in, fetch_out,
          gpc, gather_in, tasks, task_results, done_order, gather_out,
          request, response>>

envVars == <<today, api_key, feed_sources>>
dbVars == <<processing_logs, feed_items>>
runVars == <<pc, limit_feeds, log, log_id, feeds, exc, exc_at, tot>>
filterVars == <<fpc, items, i, results, responses, trace>>
fetchVars == <<session, fetch_in, fetch_out>>
gatherVars == <<gpc, gather_in, tasks, task_results, done_order, gather_out>>
apiVars == <<request, response>>

(***************************************************************************)
(* Helpers.                                                                *)
(***************************************************************************)
Range(s) == {s[k] : k \in DOMAIN s}

Min(a, b) == IF a < b THEN a ELSE b

\* Ascending sequence of the elements of a finite set of integers.
RECURSIVE SetToSeq(_)
SetToSeq(S) ==
  IF S = {} THEN <<>>
  ELSE LET m == CHOOSE x \in S : \A y \in S : x <= y
       IN <<m>> \o SetToSeq(S \ {m})

(***************************************************************************)
(* models/processing_log.py, models/feed_source.py                         *)
(***************************************************************************)
NewLog(d) ==
  [run_date |-> d, status |-> "running", feeds_processed |-> 0,
   items_fetched |-> 0, items_relevant |-> 0, api_calls_made |-> 0,
   completed_at |-> FALSE, error_message |-> None]

NoLog == [NewLog(0) EXCEPT !.status = "none"]

\* RunDateTaken without the unique constraint: no insert is refused.
RunDateTaken_never(d) == FALSE

\* run_date = Column(Date, unique=True, nullable=False)
RunDateTaken(d) == \E k \in DOMAIN processing_logs : processing_logs[k].run_date = d

\* EnabledFeeds without the filter on enabled: every source is selected.
EnabledFeeds_all == FeedIds

\* select(FeedSource).where(FeedSource.enabled == True)
EnabledFeeds == {f \in FeedIds : feed_sources[f].enabled}

(***************************************************************************)
(* Python call semantics used by the coordinator.                          *)
(***************************************************************************)
\* Binding of a call with npos positional arguments and the keyword
\* arguments kwnames to a function whose parameters (none with a default)
\* are params: the call raises TypeError unless it binds.
CallBinds(params, npos, kwnames) ==
  /\ npos <= Len(params)
  /\ kwnames = {params[k] : k \in (npos + 1)..Len(params)}

\* async def fetch_feed(self, feed_source)
fetch_feed_params == <<"self", "feed_source">>

\* FeedFetcher.fetch_feed(feed_source.feed_url, max_items=limit_items_per_feed)
fetch_feed_call_binds == CallBinds(fetch_feed_params, 1, {"max_items"})

(***************************************************************************)
(* ProcessingService.run_daily_processing                                  *)
(***************************************************************************)
\* The cron job calls with the defaults (limit_feeds=None); the endpoint
\* passes its query parameter limit_feeds.
LimitChoices(r) == IF r = "cron" THEN {None} ELSE 0..MaxFeeds

\* Lines 33-47: open the session, build the ProcessingLog, session.add(log).
Invoke(r) ==
  /\ pc[r] = "idle"
  /\ \E lf \in LimitChoices(r) : limit_feeds' = [limit_feeds EXCEPT ![r] = lf]
  /\ log' = [log EXCEPT ![r] = NewLog(today)]
  /\ pc' = [pc EXCEPT ![r] = "create_commit"]
  /\ UNCHANGED <<envVars, dbVars, log_id, feeds, exc, exc_at, tot, filterVars, fetchVars, gatherVars, apiVars>>

\* The exception e leaves run_daily_processing.
Raise(r, e, at) ==
  /\ exc' = [exc EXCEPT ![r] = e]
  /\ exc_at' = [exc_at EXCEPT ![r] = at]
  /\ pc' = [pc EXCEPT ![r] = "raised"]

\* The exception e enters the except block of line 136.
Catch(r, e, at) ==
  /\ exc' = [exc EXCEPT ![r] = e]
  /\ exc_at' = [exc_at EXCEPT ![r] = at]
  /\ pc' = [pc EXCEPT ![r] = "handler"]

\* CreateCommitOk without the commit of line 48: the record is only added
\* to the session and the run goes on.
CreateCommitOk_deferred(r) ==
  /\ pc[r] = "create_commit"
  /\ ~RunDateTaken(log[r].run_date)
  /\ pc' = [pc EXCEPT ![r] = "load"]
  /\ UNCHANGED <<envVars, dbVars, limit_feeds, log, log_id, feeds, exc, exc_at,
                 tot, filterVars, fetchVars, gatherVars, apiVars>>

\* Line 48, the INSERT is accepted.
CreateCommitOk(r) ==
  /\ pc[r] = "create_commit"
  /\ ~RunDateTaken(log[r].run_date)
  /\ processing_logs' = Append(processing_logs, log[r])
  /\ log_id' = [log_id EXCEPT ![r] = Len(processing_logs) + 1]
  /\ pc' = [pc EXCEPT ![r] = "load"]
  /\ UNCHANGED <<envVars, feed_items, limit_feeds, log, feeds, exc, exc_at,
                 tot, filterVars, fetchVars, gatherVars, apiVars>>

\* Line 48, the INSERT violates the unique constraint on run_date.  The
\* commit is outside the try block: the error leaves the function.
CreateCommitDuplicate(r) ==
  /\ pc[r] = "create_commit"
  /\ RunDateTaken(log[r].run_date)
  /\ Raise(r, "IntegrityError", "create_commit")
  /\ UNCHANGED <<envVars, dbVars, limit_feeds, log, log_id, feeds, tot,
                 filterVars, fetchVars, gatherVars, apiVars>>

\* Line 48, the database is unavailable.
CreateCommitDbError(r) ==
  /\ pc[r] = "create_commit"
  /\ Raise(r, "OperationalError", "create_commit")
  /\ UNCHANGED <<envVars, dbVars, limit_feeds, log, log_id, feeds, tot,
                 filterVars, fetchVars, gatherVars, apiVars>>

\* Lines 52-57: the enabled feeds, at most limit_feeds of them when
\* limit_feeds is truthy.  The query has no ORDER BY.
SelectedFeeds(lf) ==
  IF lf = None \/ lf = 0
    THEN {EnabledFeeds}
    ELSE {S \in SUBSET EnabledFeeds : Cardinality(S) = Min(lf, Cardinality(EnabledFeeds))}

LoadFeedsOk(r) ==
  /\ pc[r] = "load"
  /\ \E S \in SelectedFeeds(limit_feeds[r]) : feeds' = [feeds EXCEPT ![r] = SetToSeq(S)]
  /\ pc' = [pc EXCEPT ![r] = "init_filter"]
  /\ UNCHANGED <<envVars, dbVars, limit_feeds, log, log_id, exc, exc_at, tot,
                 filterVars, fetchVars, gatherVars, apiVars>>

LoadFeedsDbError(r) ==
  /\ pc[r] = "load"
  /\ Catch(r, "OperationalError", "load")
  /\ UNCHANGED <<envVars, dbVars, limit_feeds, log, log_id, feeds, tot,
                 filterVars, fetchVars, gatherVars, apiVars>>

\* Line 62: ClaudeFilter() raises ValueError without ANTHROPIC_API_KEY
\* (claude_filter.py lines 20-22).  Lines 64-66 zero the totals.
ConstructFilter(r) ==
  /\ pc[r] = "init_filter"
  /\ IF api_key
       THEN /\ pc' = [pc EXCEPT ![r] = "loop"]
            /\ tot' = [tot EXCEPT ![r] = [fetched |-> 0, relevant |-> 0, api_calls |-> 0]]
            /\ UNCHANGED <<exc, exc_at>>
       ELSE /\ Catch(r, "ValueError", "init_filter")
            /\ UNCHANGED tot
  /\ UNCHANGED <<envVars, dbVars, limit_feeds, log, log_id, feeds,
                 filterVars, fetchVars, gatherVars, apiVars>>

\* Lines 69-76, first iteration of the loop: the call of line 73 passes the
\* keyword max_items, which fetch_feed does not take, so evaluating the call
\* raises TypeError before any fetch starts.  Nothing of lines 77-117 is
\* executed in any run.
ProcessFeed(r) ==
  /\ pc[r] = "loop"
  /\ feeds[r] # <<>>
  /\ ~fetch_feed_call_binds
  /\ Catch(r, "TypeError", "fetch")
  /\ UNCHANGED <<envVars, dbVars, limit_feeds, log, log_id, feeds, tot,
                 filterVars, fetchVars, gatherVars, apiVars>>

\* Lines 119-125, the loop is over (only when no feed was selected).
Finish(r) ==
  /\ pc[r] = "loop"
  /\ feeds[r] = <<>>
  /\ log' = [log EXCEPT ![r] = [@ EXCEPT !.feeds_processed = Len(feeds[r]),
                                         !.items_fetched = tot[r].fetched,
                                         !.items_relevant = tot[r].relevant,
                                         !.api_calls_made = tot[r].api_calls,
                                         !.status = "success",
                                         !.completed_at = TRUE]]
  /\ pc' = [pc EXCEPT ![r] = "final_commit"]
  /\ UNCHANGED <<envVars, dbVars, limit_feeds, log_id, feeds, exc, exc_at, tot,
                 filterVars, fetchVars, gatherVars, apiVars>>

\* Line 126.
FinalCommitOk(r) ==
  /\ pc[r] = "final_commit"
  /\ processing_logs' = [processing_logs EXCEPT ![log_id[r]] = log[r]]
  /\ pc' = [pc EXCEPT ![r] = "returned"]
  /\ UNCHANGED <<envVars, feed_items, limit_feeds, log, log_id, feeds, exc,
                 exc_at, tot, filterVars, fetchVars, gatherVars, apiVars>>

FinalCommitDbError(r) ==
  /\ pc[r] = "final_commit"
  /\ Catch(r, "OperationalError", "final_commit")
  /\ UNCHANGED <<envVars, dbVars, limit_feeds, log, log_id, feeds, tot,
                 filterVars, fetchVars, gatherVars, apiVars>>

\* Lines 136-139: what the except block assigns before its commit.
FailedLog(l) == [l EXCEPT !.status = "failed", !.completed_at = TRUE]

\* Lines 136-141, the commit of line 140 succeeds; the caught exception is
\* re-raised.
HandlerCommitOk(r) ==
  /\ pc[r] = "handler"
  /\ log' = [log EXCEPT ![r] = FailedLog(@)]
  /\ processing_logs' = [processing_logs EXCEPT ![log_id[r]] = FailedLog(log[r])]
  /\ pc' = [pc EXCEPT ![r] = "raised"]
  /\ UNCHANGED <<envVars, feed_items, limit_feeds, log_id, feeds, exc, exc_at,
                 tot, filterVars, fetchVars, gatherVars, apiVars>>

\* Lines 136-140, the commit of line 140 raises: its error leaves the
\* function and the stored row keeps what the last commit wrote.
HandlerCommitDbError(r) ==
  /\ pc[r] = "handler"
  /\ log' = [log EXCEPT ![r] = FailedLog(@)]
  /\ Raise(r, "OperationalError", "handler_commit")
  /\ UNCHANGED <<envVars, dbVars, limit_feeds, log_id, feeds, tot,
                 filterVars, fetchVars, gatherVars, apiVars>>

\* The invocation is over (the session is closed, lines 33 and 141); the
\* trigger may fire again.
Return(r) ==
  /\ pc[r] \in {"returned", "raised"}
  /\ pc' = [pc EXCEPT ![r] = "idle"]
  /\ limit_feeds' = [limit_feeds EXCEPT ![r] = None]
  /\ log' = [log EXCEPT ![r] = NoLog]
  /\ log_id' = [log_id EXCEPT ![r] = 0]
  /\ feeds' = [feeds EXCEPT ![r] = <<>>]
  /\ exc' = [exc EXCEPT ![r] = "none"]
  /\ exc_at' = [exc_at EXCEPT ![r] = "none"]
  /\ tot' = [tot EXCEPT ![r] = [fetched |-> 0, relevant |-> 0, api_calls |-> 0]]
  /\ UNCHANGED <<envVars, dbVars, filterVars, fetchVars, gatherVars, apiVars>>

\* The calendar date changes.
AdvanceDay ==
  /\ today < MaxDay
  /\ today' = today + 1
  /\ UNCHANGED <<api_key, feed_sources, dbVars, runVars, filterVars, fetchVars, gatherVars, apiVars>>

(***************************************************************************)
(* ClaudeFilter (services/claude_filter.py)                                *)
(*                                                                         *)
(* An item is [id, has_title]: id is its position in the caller's list and *)
(* has_title says whether the dict has the key 'title'.  What the external *)
(* API does for one batch is                                               *)
(*   [kind |-> "raise", cause]          messages.create raises             *)
(*   [kind |-> "empty"]                 response.content is empty          *)
(*   [kind |-> "not_called"]            the API is not reached             *)
(*   [kind |-> "text", wrapper, body]   response.content[0].text           *)
(* where wrapper is what surrounds the body ("none", "whitespace" or a     *)
(* Markdown code "fence") and body is "invalid" text, a JSON "object" or a *)
(* JSON "array" with its elements.                                         *)
(***************************************************************************)
Item(k, bad) == [id |-> k, has_title |-> (k # bad)]

ItemLists == {[k \in 1..n |-> Item(k, bad)] : n \in 0..MaxItems, bad \in 0..MaxItems}

Dict(d) == [t |-> "dict", d |-> d]
Scalar == [t |-> "scalar", d |-> <<>>]

Patterns == {"all_true", "all_false", "odd", "first", "no_keys", "scalar_last"}

\* Element k of an array of n elements answered under the pattern p.
Elem(p, k, n) ==
  LET why == [kind |-> "model", cause |-> p, pos |-> k]
  IN CASE p = "all_true" -> Dict([is_relevant |-> TRUE, reasoning |-> why])
       [] p = "all_false" -> Dict([is_relevant |-> FALSE, reasoning |-> why])
       [] p = "odd" -> Dict([is_relevant |-> (k % 2 = 1), reasoning |-> why])
       [] p = "first" -> Dict([is_relevant |-> (k = 1), reasoning |-> why])
       [] p = "no_keys" -> Dict(<<>>)
       [] p = "scalar_last" ->
            IF k = n THEN Scalar ELSE Dict([is_relevant |-> TRUE, reasoning |-> why])

Array(p, n) == [kind |-> "array", elems |-> [k \in 1..n |-> Elem(p, k, n)]]
Object == [kind |-> "object", elems |-> <<>>]
Invalid == [kind |-> "invalid", elems |-> <<>>]

Text(w, b) == [kind |-> "text", cause |-> "", wrapper |-> w, body |-> b]

NotCalled == [kind |-> "not_called", cause |-> "", wrapper |-> "none", body |-> Invalid]

\* What the external API may do for a batch of L items.
ApiOutcomes(L) ==
  {[kind |-> "raise", cause |-> c, wrapper |-> "none", body |-> Invalid] : c \in {"timeout", "api_error"}}
  \cup {[kind |-> "empty", cause |-> "", wrapper |-> "none", body |-> Invalid]}
  \cup {Text("none", Invalid), Text("none", Object)}
  \cup {Text(w, Array(p, L)) : w \in {"none", "whitespace", "fence"}, p \in Patterns}
  \cup {Text("none", Array("odd", n)) : n \in {L - 1, L + 1}}

\* json.loads: surrounding whitespace is skipped, anything else around or
\* instead of a JSON value raises JSONDecodeError.
json_loads(text) ==
  IF text.wrapper \in {"none", "whitespace"} /\ text.body.kind # "invalid"
    THEN [ok |-> TRUE, value |-> text.body]
    ELSE [ok |-> FALSE, value |-> Invalid]

\* dict.get(key, default)
Get(d, key, default) == IF key \in DOMAIN d THEN d[key] ELSE default

Reason(kind, cause) == [kind |-> kind, cause |-> cause, pos |-> 0]

\* AllFailed failing open: the items of a failed batch are marked relevant.
AllFailed_open(batch, reasoning) ==
  [k \in DOMAIN batch |-> [item |-> batch[k], is_relevant |-> TRUE, reasoning |-> reasoning]]

\* [(item, False, reasoning) for item in items]
AllFailed(batch, reasoning) ==
  [k \in DOMAIN batch |-> [item |-> batch[k], is_relevant |-> FALSE, reasoning |-> reasoning]]

Returned(rs) == [raised |-> FALSE, exc |-> "", results |-> rs]
Raised(e) == [raised |-> TRUE, exc |-> e, results |-> <<>>]

\* ValidFormat without the comparison of the lengths.
ValidFormat_nolen(value, batch) == value.kind = "array"

\* Line 84: the parsed value is accepted.
ValidFormat(value, batch) ==
  value.kind = "array" /\ Len(value.elems) = Len(batch)

\* Verdicts pairing the items with the response read from its end.
Verdicts_reversed(batch, elems) ==
  [k \in 1..Min(Len(batch), Len(elems)) |->
     [item |-> batch[k],
      is_relevant |-> Get(elems[Len(elems) + 1 - k].d, "is_relevant", FALSE),
      reasoning |-> Get(elems[Len(elems) + 1 - k].d, "reasoning", Reason("default", "No reasoning provided"))]]

\* Lines 87-91: zip(items, batch_results) and the two result.get calls.
Verdicts(batch, elems) ==
  [k \in 1..Min(Len(batch), Len(elems)) |->
     [item |-> batch[k],
      is_relevant |-> Get(elems[k].d, "is_relevant", FALSE),
      reasoning |-> Get(elems[k].d, "reasoning", Reason("default", "No reasoning provided"))]]

\* Lines 66-100.  The prompt is built outside the try block (line 68), so
\* the KeyError of item['title'] (line 107) leaves the method.
process_relevance_batch(batch, api) ==
  IF \E k \in DOMAIN batch : ~batch[k].has_title
    THEN Raised("'title'")
  ELSE IF api.kind = "raise"
    THEN Returned(AllFailed(batch, Reason("api_error", api.cause)))
  ELSE IF api.kind = "empty"
    THEN Returned(AllFailed(batch, Reason("api_error", "list index out of range")))
  ELSE LET parsed == json_loads(api) IN
    IF ~parsed.ok
      THEN Returned(AllFailed(batch, Reason("json_parse_error", "")))
    ELSE IF ~ValidFormat(parsed.value, batch)
      THEN Returned(AllFailed(batch, Reason("api_error", "Invalid response format from Claude API")))
    ELSE IF \E k \in 1..Min(Len(batch), Len(parsed.value.elems)) : parsed.value.elems[k].t # "dict"
      THEN Returned(AllFailed(batch, Reason("api_error", "object has no attribute 'get'")))
    ELSE Returned(Verdicts(batch, parsed.value.elems))

\* items[i:i + batch_size], i counted from 0
Batch(its, k) == SubSeq(its, k + 1, Min(k + batch_size, Len(its)))

\* Whether the external API is reached for the batch: not when building
\* the prompt fails.
Dispatched(batch) == \A k \in DOMAIN batch : batch[k].has_title

\* Lines 48-62: one iteration of the loop of filter_relevance_batch.
FilterBatch ==
  /\ fpc = "loop"
  /\ i < Len(items)
  /\ \E api \in (IF Dispatched(Batch(items, i))
                    THEN ApiOutcomes(Len(Batch(items, i))) ELSE {NotCalled}) :
       LET batch == Batch(items, i)
           out == process_relevance_batch(batch, api)
           sleep == i + batch_size < Len(items)
       IN /\ responses' = Append(responses, api)
          /\ IF ~out.raised
               THEN /\ results' = results \o out.results
                    /\ trace' = trace \o <<"call">> \o (IF sleep THEN <<"sleep">> ELSE <<>>)
               ELSE /\ results' = results \o AllFailed(batch, Reason("api_error", out.exc))
                    /\ UNCHANGED trace
  /\ i' = i + batch_size
  /\ UNCHANGED <<fpc, items, envVars, dbVars, runVars, fetchVars, gatherVars, apiVars>>

\* Line 64.
FilterReturn ==
  /\ fpc = "loop"
  /\ i >= Len(items)
  /\ fpc' = "done"
  /\ UNCHANGED <<items, i, results, responses, trace, envVars, dbVars, runVars, fetchVars, gatherVars, apiVars>>

(***************************************************************************)
(* FeedFetcher (services/feed_fetcher.py)                                  *)
(*                                                                         *)
(* A call of fetch_feed is given what the source serves:                   *)
(*   url_valid   the feed URL has a scheme and a host                      *)
(*   http        "ok" (a response arrives), "timeout" or "error"           *)
(*   status      the HTTP status of the response                           *)
(*   doc         what feedparser makes of the body: bozo (the document is  *)
(*               not well formed) and n entries, of which entry nolink has *)
(*               no link and extracting entry bad raises.                  *)
(***************************************************************************)
Doc(bozo, n, nolink, bad) == [bozo |-> bozo, n |-> n, nolink |-> nolink, bad |-> bad]

Docs == {Doc(b, n, nl, bd) : b \in BOOLEAN, n \in 0..MaxEntries, nl \in {0, 1, 3}, bd \in {0, 2}}

Served(v, h, st, doc) == [url_valid |-> v, http |-> h, status |-> st, doc |-> doc]

\* Every document behind a valid URL answered 200, and a two-entry document
\* behind every other kind of answer.
FetchInputs ==
  {Served(TRUE, "ok", 200, doc) : doc \in Docs}
  \cup {Served(v, h, st, Doc(FALSE, 2, 0, 0)) :
          v \in BOOLEAN, h \in {"ok", "timeout", "error"}, st \in {200, 204, 404, 500}}

NoFetch ==
  [called |-> FALSE, session |-> "none", raised |-> FALSE, exc |-> "", items |-> <<>>]

\* parsed_feed.entries
parsed_entries(doc) ==
  [k \in 1..doc.n |-> [pos |-> k, has_link |-> (k # doc.nolink), raises |-> (k = doc.bad)]]

\* Capped without the slice: every entry of the document is extracted.
Capped_none(entries) == entries

\* parsed_feed.entries[:50]
Capped(entries) == SubSeq(entries, 1, Min(entries_cap, Len(entries)))

\* Kept without the test of the link: an entry without link yields an item.
Kept_linkless(entry) == ~entry.raises

\* Lines 65-71 and 83-129: the entry yields an item.  _extract_item_data
\* returns None for an entry without link before anything else can raise;
\* an exception of the extraction is caught and the entry is skipped.
Kept(entry) == entry.has_link /\ ~entry.raises

\* Lines 122-129: the item of an entry (its URL stands for all its fields).
extract_item_data(entry) == [url |-> entry.pos]

\* Lines 62-74.
extract_items(doc) ==
  LET kept == SelectSeq(Capped(parsed_entries(doc)), Kept)
  IN [k \in DOMAIN kept |-> extract_item_data(kept[k])]

FetchResult(sess, raised, e, its) ==
  [called |-> TRUE, session |-> sess, raised |-> raised, exc |-> e, items |-> its]

\* Lines 31-81.  The check of self.session is outside the try block.
fetch_feed(sess, served) ==
  IF sess = "none"
    THEN FetchResult(sess, TRUE, "RuntimeError", <<>>)
  ELSE IF ~served.url_valid \/ sess = "closed" \/ served.http # "ok"
    THEN FetchResult(sess, FALSE, "", <<>>)
  ELSE IF served.status # 200
    THEN FetchResult(sess, FALSE, "", <<>>)
  ELSE FetchResult(sess, FALSE, "", extract_items(served.doc))

\* Lines 21-24: __aenter__.
Enter ==
  /\ session # "open"
  /\ session' = "open"
  /\ UNCHANGED <<fetch_in, fetch_out, envVars, dbVars, runVars, filterVars, gatherVars, apiVars>>

\* Lines 26-29: __aexit__.
Exit ==
  /\ session = "open"
  /\ session' = "closed"
  /\ UNCHANGED <<fetch_in, fetch_out, envVars, dbVars, runVars, filterVars, gatherVars, apiVars>>

\* Lines 31-81: one call of fetch_feed.
FetchFeed ==
  /\ \E served \in FetchInputs :
       /\ fetch_in' = served
       /\ fetch_out' = fetch_feed(session, served)
  /\ UNCHANGED <<session, envVars, dbVars, runVars, filterVars, gatherVars, apiVars>>

(***************************************************************************)
(* FeedFetcher.fetch_all_feeds (services/feed_fetcher.py lines 131-146)    *)
(*                                                                         *)
(* The argument is a list of sources, each given by what it serves.  Line  *)
(* 136 makes one coroutine per source; asyncio.gather wraps them in tasks, *)
(* which start in list order and finish in any order.                      *)
(***************************************************************************)
\* What a source of the list may serve: two items; three entries of which
\* only the third yields an item; a document that is not well formed with
\* one entry; HTTP 500; a timeout; an invalid feed URL.
GatherChoices ==
  {Served(TRUE, "ok", 200, Doc(FALSE, 2, 0, 0)),
   Served(TRUE, "ok", 200, Doc(FALSE, 3, 1, 2)),
   Served(TRUE, "ok", 200, Doc(TRUE, 1, 0, 0)),
   Served(TRUE, "ok", 500, Doc(FALSE, 2, 0, 0)),
   Served(TRUE, "timeout", 200, Doc(FALSE, 2, 0, 0)),
   Served(FALSE, "ok", 200, Doc(FALSE, 2, 0, 0))}

GatherInputs == UNION {[1..n -> GatherChoices] : n \in 0..MaxFeeds}

NoTask == [raised |-> FALSE, exc |-> "", items |-> <<>>]

NoGather == [called |-> FALSE, session |-> "none", raised |-> FALSE, exc |-> "", items |-> <<>>]

\* Line 67: the items of source k carry feed_source.id.
Tagged(its, k) == [j \in DOMAIN its |-> [url |-> its[j].url, source_feed_id |-> k]]

\* What the task of source k returns or raises: self.fetch_feed(feed_source).
TaskOutcome(sess, served, k) ==
  LET out == fetch_feed(sess, served)
  IN [raised |-> out.raised, exc |-> out.exc, items |-> Tagged(out.items, k)]

\* Concatenation of a sequence of sequences.
RECURSIVE Concat(_)
Concat(seqs) == IF seqs = <<>> THEN <<>> ELSE Head(seqs) \o Concat(Tail(seqs))

\* Collected taking the results in the order in which the tasks finished.
Collected_completion_order(res, ord) ==
  Concat([j \in DOMAIN ord |-> IF res[ord[j]].raised THEN <<>> ELSE res[ord[j]].items])

\* Lines 137-146: gather returns the results in the order of the awaitables,
\* whatever the order ord in which they finished; a result that is an
\* exception is logged, every other one is appended to all_items.
Collected(res, ord) ==
  Concat([k \in DOMAIN res |-> IF res[k].raised THEN <<>> ELSE res[k].items])

\* Lines 131-136: the call.  Without a session it raises RuntimeError;
\* otherwise one task per source is created.
FetchAll ==
  /\ gpc # "gathering"
  /\ \E srcs \in GatherInputs :
       /\ gather_in' = srcs
       /\ tasks' = [k \in DOMAIN srcs |-> "pending"]
       /\ task_results' = [k \in DOMAIN srcs |-> NoTask]
  /\ done_order' = <<>>
  /\ IF session = "none"
       THEN /\ gpc' = "raised"
            /\ gather_out' = [called |-> TRUE, session |-> session, raised |-> TRUE,
                               exc |-> "RuntimeError", items |-> <<>>]
       ELSE /\ gpc' = "gathering"
            /\ gather_out' = NoGather
  /\ UNCHANGED <<envVars, dbVars, runVars, filterVars, fetchVars, apiVars>>

\* The event loop starts the next task of the list; no task waits for
\* another to finish.
TaskStart(k) ==
  /\ gpc = "gathering"
  /\ k \in DOMAIN tasks
  /\ tasks[k] = "pending"
  /\ \A j \in 1..(k - 1) : tasks[j] # "pending"
  /\ tasks' = [tasks EXCEPT ![k] = "running"]
  /\ UNCHANGED <<gpc, gather_in, task_results, done_order, gather_out,
                 envVars, dbVars, runVars, filterVars, fetchVars, apiVars>>

\* The fetch of source k is over, before or after those of other sources.
TaskDone(k) ==
  /\ gpc = "gathering"
  /\ k \in DOMAIN tasks
  /\ tasks[k] = "running"
  /\ tasks' = [tasks EXCEPT ![k] = "done"]
  /\ task_results' = [task_results EXCEPT ![k] = TaskOutcome(session, gather_in[k], k)]
  /\ done_order' = Append(done_order, k)
  /\ UNCHANGED <<gpc, gather_in, gather_out,
                 envVars, dbVars, runVars, filterVars, fetchVars, apiVars>>

\* Lines 137-146: every task is over; the results are collected and returned.
Collect ==
  /\ gpc = "gathering"
  /\ \A k \in DOMAIN tasks : tasks[k] = "done"
  /\ gather_out' = [called |-> TRUE, session |-> session, raised |-> FALSE, exc |-> "",
                    items |-> Collected(task_results, done_order)]
  /\ gpc' = "returned"
  /\ UNCHANGED <<gather_in, tasks, task_results, done_order,
                 envVars, dbVars, runVars, filterVars, fetchVars, apiVars>>

(***************************************************************************)
(* The HTTP surface (app.py, routes/*.py, auth.py)                         *)
(*                                                                         *)
(* A path is the sequence of its segments; a request carries a method, a   *)
(* path and its Basic credentials: "none" (no Authorization header),       *)
(* "wrong" or "right" (eratosthenes:eratosthenes).                         *)
(***************************************************************************)
Lit(x) == [lit |-> TRUE, s |-> x]
Param(x) == [lit |-> FALSE, s |-> x]

Seg(x) == [s |-> x, n |-> 0]
IdSeg(n) == [s |-> "#", n |-> n]

Route(m, path, auth) == [method |-> m, path |-> path, auth |-> auth]

\* The routes the application registers: app.py lines 70-75 include the
\* routers of dashboard.py, review.py, feeds.py and (under /api) api.py and
\* declare /health.  auth says whether the handler depends on
\* verify_credentials.  The router of routes/feeds_manage.py is not
\* included, and no module declares a DELETE route.
Routes ==
  {Route("GET", <<>>, TRUE),
   Route("GET", <<Lit("review")>>, TRUE),
   Route("POST", <<Lit("review"), Param("item_id"), Lit("approve")>>, TRUE),
   Route("POST", <<Lit("review"), Param("item_id"), Lit("reject")>>, TRUE),
   Route("GET", <<Lit("feeds"), Lit("standard.xml")>>, FALSE),
   Route("GET", <<Lit("feeds"), Lit("priority.xml")>>, FALSE),
   Route("GET", <<Lit("api"), Lit("stats")>>, FALSE),
   Route("POST", <<Lit("api"), Lit("import-feeds")>>, FALSE),
   Route("GET", <<Lit("api"), Lit("feeds")>>, FALSE),
   Route("POST", <<Lit("api"), Lit("process-feeds")>>, FALSE),
   Route("GET", <<Lit("health")>>, FALSE)}

\* PathMatches accepting a path that only starts with the route's template.
PathMatches_prefix(route, path) ==
  /\ Len(route.path) <= Len(path)
  /\ \A k \in DOMAIN route.path : route.path[k].lit => route.path[k].s = path[k].s

\* The path matches the route's template, segment by segment.
PathMatches(route, path) ==
  /\ Len(route.path) = Len(path)
  /\ \A k \in DOMAIN path : route.path[k].lit => route.path[k].s = path[k].s

Credentials == {"none", "wrong", "right"}

\* auth.py lines 8-30: HTTPBasic refuses a request without credentials and
\* verify_credentials one whose user name or password differs.
Authenticated(cred) == cred = "right"

Answer(status, body) == [handled |-> TRUE, status |-> status, body |-> body]

NoAnswer == [handled |-> FALSE, status |-> 0, body |-> ""]

\* The answer of the application: 404 when no route has the path, 405 when
\* routes have the path but none the method, 401 when the route's handler
\* depends on verify_credentials and the credentials are refused, otherwise
\* the handler's answer.  Every GET handler only reads the database.
Respond(req) ==
  LET partial == {r \in Routes : PathMatches(r, req.path)}
      full == {r \in partial : r.method = req.method}
  IN IF partial = {} THEN Answer(404, "Not Found")
     ELSE IF full = {} THEN Answer(405, "Method Not Allowed")
     ELSE IF \E r \in full : r.auth /\ ~Authenticated(req.cred)
       THEN Answer(401, "Unauthorized")
     ELSE Answer(200, "ok")

\* The requests of the model: reads of the pages and of the JSON API, and
\* the requests of the feed-management surface, for feeds that exist and for
\* one that does not.
Paths ==
  {<<>>, <<Seg("review")>>, <<Seg("feeds-manage")>>, <<Seg("health")>>,
   <<Seg("api"), Seg("feeds")>>,
   <<Seg("review"), IdSeg(1), Seg("approve")>>}
  \cup {<<Seg("api"), Seg("feeds"), IdSeg(n)>> : n \in 1..(MaxFeeds + 1)}

Requests ==
  {[method |-> m, path |-> path, cred |-> c] :
     m \in {"GET", "DELETE"}, path \in Paths, c \in Credentials}

NoRequest == [method |-> "", path |-> <<>>, cred |-> "none"]

\* One request is received and answered.
Handle ==
  /\ \E req \in Requests :
       /\ request' = req
       /\ response' = Respond(req)
  /\ UNCHANGED <<envVars, dbVars, runVars, filterVars, fetchVars, gatherVars>>

(***************************************************************************)
(* Specifications.                                                         *)
(***************************************************************************)
RunInit ==
  /\ pc = [r \in Runs |-> "idle"]
  /\ limit_feeds = [r \in Runs |-> None]
  /\ log = [r \in Runs |-> NoLog]
  /\ log_id = [r \in Runs |-> 0]
  /\ feeds = [r \in Runs |-> <<>>]
  /\ exc = [r \in Runs |-> "none"]
  /\ exc_at = [r \in Runs |-> "none"]
  /\ tot = [r \in Runs |-> [fetched |-> 0, relevant |-> 0, api_calls |-> 0]]

FilterIdle ==
  /\ fpc = "done"
  /\ items = <<>>
  /\ i = 0
  /\ results = <<>>
  /\ responses = <<>>
  /\ trace = <<>>

\* Line 18 of feed_fetcher.py: a FeedFetcher that was constructed.
FetchIdle ==
  /\ session = "none"
  /\ fetch_in = Served(FALSE, "error", 0, Doc(FALSE, 0, 0, 0))
  /\ fetch_out = NoFetch

GatherIdle ==
  /\ gpc = "idle"
  /\ gather_in = <<>>
  /\ tasks = <<>>
  /\ task_results = <<>>
  /\ done_order = <<>>
  /\ gather_out = NoGather

ApiIdle ==
  /\ request = NoRequest
  /\ response = NoAnswer

\* The database after init_db and an import of feeds; no run yet.
Init ==
  /\ today = 1
  /\ api_key \in BOOLEAN
  /\ feed_sources \in [FeedIds -> [enabled : BOOLEAN, last_fetched : {0}]]
  /\ processing_logs = <<>>
  /\ feed_items = <<>>
  /\ RunInit
  /\ FilterIdle
  /\ FetchIdle
  /\ GatherIdle
  /\ ApiIdle

Next ==
  \/ AdvanceDay
  \/ \E r \in Runs :
       \/ Invoke(r)
       \/ CreateCommitOk(r)
       \/ CreateCommitDuplicate(r)
       \/ CreateCommitDbError(r)
       \/ LoadFeedsOk(r)
       \/ LoadFeedsDbError(r)
       \/ ConstructFilter(r)
       \/ ProcessFeed(r)
       \/ Finish(r)
       \/ FinalCommitOk(r)
       \/ FinalCommitDbError(r)
       \/ HandlerCommitOk(r)
       \/ HandlerCommitDbError(r)
       \/ Return(r)

Spec == Init /\ [][Next]_vars

\* The steps of an invocation that is in flight: each commit, query, call
\* and assignment of run_daily_processing returns or raises.
RunStep(r) ==
  \/ CreateCommitOk(r)
  \/ CreateCommitDuplicate(r)
  \/ CreateCommitDbError(r)
  \/ LoadFeedsOk(r)
  \/ LoadFeedsDbError(r)
  \/ ConstructFilter(r)
  \/ ProcessFeed(r)
  \/ Finish(r)
  \/ FinalCommitOk(r)
  \/ FinalCommitDbError(r)
  \/ HandlerCommitOk(r)
  \/ HandlerCommitDbError(r)

\* The run coordinator when no step of an invocation blocks forever.  The
\* triggers need not fire again.
SpecLive == Init /\ [][Next]_vars /\ \A r \in Runs : WF_vars(RunStep(r))

\* A caller enters filter_relevance_batch with a list of items.
FInit ==
  /\ today = 1
  /\ api_key = TRUE
  /\ feed_sources = [f \in FeedIds |-> [enabled |-> FALSE, last_fetched |-> 0]]
  /\ processing_logs = <<>>
  /\ feed_items = <<>>
  /\ RunInit
  /\ fpc = "loop"
  /\ items \in ItemLists
  /\ i = 0
  /\ results = <<>>
  /\ responses = <<>>
  /\ trace = <<>>
  /\ FetchIdle
  /\ GatherIdle
  /\ ApiIdle

FNext == FilterBatch \/ FilterReturn

SpecFilter == FInit /\ [][FNext]_vars

\* A FeedFetcher was constructed; nothing else runs.
FetchInit ==
  /\ today = 1
  /\ api_key = TRUE
  /\ feed_sources = [f \in FeedIds |-> [enabled |-> FALSE, last_fetched |-> 0]]
  /\ processing_logs = <<>>
  /\ feed_items = <<>>
  /\ RunInit
  /\ FilterIdle
  /\ FetchIdle
  /\ GatherIdle
  /\ ApiIdle

FetchNext == Enter \/ Exit \/ FetchFeed

SpecFetch == FetchInit /\ [][FetchNext]_vars

\* A FeedFetcher is entered and left between calls of fetch_all_feeds.
GatherNext ==
  \/ (gpc # "gathering" /\ Enter)
  \/ (gpc # "gathering" /\ Exit)
  \/ FetchAll
  \/ \E k \in 1..MaxFeeds : TaskStart(k) \/ TaskDone(k)
  \/ Collect

SpecGather == FetchInit /\ [][GatherNext]_vars

\* The application serves requests over any table of feed sources.
ApiInit ==
  /\ today = 1
  /\ api_key = TRUE
  /\ feed_sources \in [FeedIds -> [enabled : BOOLEAN, last_fetched : {0}]]
  /\ processing_logs = <<>>
  /\ feed_items = <<>>
  /\ RunInit
  /\ FilterIdle
  /\ FetchIdle
  /\ GatherIdle
  /\ ApiIdle

SpecApi == ApiInit /\ [][Handle]_vars

(***************************************************************************)
(* Properties of the run coordinator (checked under Spec).                 *)
(***************************************************************************)
Finished(r) == pc[r] \in {"returned", "raised"}

StoredLog(r) == processing_logs[log_id[r]]

\* Steps of a run that are not the work on one source.
TopLevelSteps == {"create_commit", "load", "init_filter", "final_commit", "handler_commit"}

\* The scenario of the fetch-isolation property: the feed of source 1 always
\* fails, every other source serves one item, which the classifier finds
\* relevant and whose URL is the source's own.
FetchFails(f) == f = 1
Entries(f) == IF FetchFails(f) THEN <<>> ELSE <<f>>
StoredUrls == {feed_items[k].url : k \in DOMAIN feed_items}

\* C1: whenever run_daily_processing has returned or raised, the run record
\* that the invocation created is stored with status 'success' or 'failed',
\* never 'running', whichever step failed.
C1_RecordNeverLeftRunning ==
  \A r \in Runs :
    (Finished(r) /\ log_id[r] # 0) => StoredLog(r).status \in {"success", "failed"}

\* C2: an invocation on a date for which a run record already exists does
\* not raise because of the unique constraint on the run date.
C2_NoCrashOnDuplicateDate ==
  \A r \in Runs : ~(pc[r] = "raised" /\ exc[r] = "IntegrityError")

\* C3: in a run over several sources of which one always fails to fetch,
\* and in which nothing outside the per-source work fails, the run record
\* ends 'success' and every relevant item of the other sources is stored.
C3_FetchFailureIsolated ==
  \A r \in Runs :
    ( /\ Finished(r)
      /\ exc_at[r] \notin TopLevelSteps
      /\ Len(feeds[r]) >= 2
      /\ \E f \in Range(feeds[r]) : FetchFails(f) )
    => /\ pc[r] = "returned"
       /\ StoredLog(r).status = "success"
       /\ \A f \in Range(feeds[r]) : Range(Entries(f)) \subseteq StoredUrls

\* C4: an exception raised in the work on one source (fetch, classify,
\* persist) never makes the invocation raise: it raises only for a failure
\* outside the per-source work.
C4_PerSourceExceptionAbsorbed ==
  \A r \in Runs : pc[r] = "raised" => exc_at[r] \in TopLevelSteps

\* What the scenario makes a run over the sources fs fetch: one item from
\* every source but the failing one, all relevant and none stored before.
ScenarioItems(fs) == Cardinality({f \in Range(fs) : ~FetchFails(f)})

\* C14: a run in which nothing outside the per-source work fails ends
\* 'success' with feeds_processed = the number of selected sources,
\* items_fetched = the number of items the fetches returned and
\* items_relevant = the number of those classified relevant.
C14_SuccessCounters ==
  \A r \in Runs :
    (Finished(r) /\ exc_at[r] \notin TopLevelSteps)
    => /\ StoredLog(r).status = "success"
       /\ StoredLog(r).feeds_processed = Len(feeds[r])
       /\ StoredLog(r).items_fetched = ScenarioItems(feeds[r])
       /\ StoredLog(r).items_relevant = ScenarioItems(feeds[r])

\* C15: when an exception escapes the run body, the run record is stored
\* 'failed' with a completion timestamp and that same exception is raised to
\* the caller.
C15_FailureRecordedAndReraised ==
  \A r \in Runs :
    (pc[r] = "raised" /\ exc_at[r] # "create_commit")
    => /\ StoredLog(r).status = "failed"
       /\ StoredLog(r).completed_at
       /\ exc_at[r] # "handler_commit"

\* C16: every stored run record with status 'failed' has an error message,
\* and a record with status 'success' has none.
C16_ErrorMessageOnFailure ==
  \A k \in DOMAIN processing_logs :
    /\ processing_logs[k].status = "failed" => processing_logs[k].error_message # None
    /\ processing_logs[k].status = "success" => processing_logs[k].error_message = None

\* C18: the run record is committed with status 'running' before the
\* source list is loaded and before any fetch of the run.
C18_RecordCommittedFirst ==
  \A r \in Runs :
    /\ pc[r] \in {"load", "init_filter", "loop"}
         => /\ log_id[r] # 0
            /\ StoredLog(r).status = "running"
            /\ StoredLog(r).run_date = log[r].run_date
    /\ exc_at[r] \in {"load", "init_filter", "fetch", "final_commit"} => log_id[r] # 0
    /\ pc[r] \in {"idle", "create_commit"} => feeds[r] = <<>>

C18_Witness ==
  \E r \in Runs :
    /\ pc[r] = "loop"
    /\ feeds[r] # <<>>
    /\ StoredLog(r).status = "running"

\* C19: in every reachable state there is at most one run record per run
\* date, whether the invocations overlap or follow each other.
C19_OneRecordPerDate ==
  \A j, k \in DOMAIN processing_logs :
    processing_logs[j].run_date = processing_logs[k].run_date => j = k

C19_Witness ==
  /\ Len(processing_logs) >= 2
  /\ \E r \in Runs : pc[r] = "raised" /\ exc[r] = "IntegrityError"

\* The sources for which the run evaluated the call of line 73: the first
\* selected one, when the run got that far.
FetchAttempted(r) == IF exc_at[r] = "fetch" THEN {feeds[r][1]} ELSE {}

\* C24: the fetches of all selected sources of a run are started in one
\* fetch phase: a run in which nothing outside the per-source work failed
\* has started the fetch of every selected source when it is over.
C24_FetchPhaseCoversAllSources ==
  \A r \in Runs :
    (Finished(r) /\ exc_at[r] \notin TopLevelSteps)
    => FetchAttempted(r) = Range(feeds[r])

\* C27: a run invoked with the cap limit_feeds = k >= 0 selects at most k
\* sources to fetch, and a run invoked without the cap, in which nothing
\* outside the per-source work fails, processes all enabled sources and
\* returns.
C27_OnDemandCaps ==
  \A r \in Runs :
    /\ limit_feeds[r] # None => Len(feeds[r]) <= limit_feeds[r]
    /\ (Finished(r) /\ limit_feeds[r] = None /\ exc_at[r] \notin TopLevelSteps)
       => (pc[r] = "returned" /\ Range(feeds[r]) = EnabledFeeds)

Terminal == {"success", "failed"}

\* C32: the stored status of a run record changes only from 'running' to
\* 'success' or 'failed', a record that is 'success' or 'failed' is never
\* written again, and when the run is over the record has changed: it
\* changes exactly once.
C32_StatusChangesExactlyOnce ==
  [][/\ \A k \in DOMAIN processing_logs :
          /\ processing_logs'[k].status # processing_logs[k].status
               => (processing_logs[k].status = "running"
                     /\ processing_logs'[k].status \in Terminal)
          /\ processing_logs[k].status \in Terminal
               => processing_logs'[k] = processing_logs[k]
     /\ \A r \in Runs :
          (pc'[r] \in {"returned", "raised"} /\ log_id'[r] # 0)
          => processing_logs'[log_id'[r]].status \in Terminal]_vars

\* C33: a run selects, and attempts to fetch, only sources that are
\* enabled; the last_fetched of a disabled source is never changed.
C33_OnlyEnabledSources ==
  \A r \in Runs :
    /\ \A f \in Range(feeds[r]) \cup FetchAttempted(r) : feed_sources[f].enabled
    /\ \A f \in FeedIds : ~feed_sources[f].enabled => feed_sources[f].last_fetched = 0

C33_Witness ==
  \E r \in Runs :
    /\ pc[r] = "handler"
    /\ exc_at[r] = "fetch"
    /\ limit_feeds[r] = None
    /\ \E f \in FeedIds : ~feed_sources[f].enabled
    /\ \E f \in FeedIds : f \in Range(feeds[r])

\* C38: when no step blocks forever, every invocation of
\* run_daily_processing eventually finishes with its run record stored in a
\* terminal status.
C38_Termination ==
  \A r \in Runs :
    (pc[r] = "create_commit")
      ~> (Finished(r) /\ log_id[r] # 0 /\ StoredLog(r).status \in Terminal)

(***************************************************************************)
(* Properties of filter_relevance_batch (checked under SpecFilter).        *)
(***************************************************************************)
\* Positions, in items and in results, of the j-th batch.
BatchRange(j) == ((j - 1) * batch_size + 1)..Min(j * batch_size, Len(items))

\* Position within its batch of the item at position k.
PosInBatch(k) == ((k - 1) % batch_size) + 1

\* The external call failed: it raised, returned no content or returned
\* text that is not JSON.
CallFailed(api) == api.kind \in {"raise", "empty"} \/ (api.kind = "text" /\ api.body.kind = "invalid")

\* The response is a JSON array of verdict objects, one per item of a batch
\* of L items.
VerdictArray(api, L) ==
  /\ api.kind = "text"
  /\ api.body.kind = "array"
  /\ Len(api.body.elems) = L
  /\ \A k \in 1..L : api.body.elems[k].t = "dict"

\* The verdict the classifier gave at position k of such an array.
GivenVerdict(api, k) ==
  IF "is_relevant" \in DOMAIN api.body.elems[k].d THEN api.body.elems[k].d.is_relevant ELSE FALSE

\* C7: when the external call for a batch fails, every item of the batch is
\* returned with relevance false and a reasoning that records the cause of
\* the failure; the call stores no item.
C7_FailedBatchNotRelevant ==
  \A j \in DOMAIN responses :
    CallFailed(responses[j]) =>
      \A k \in BatchRange(j) :
        /\ k \in DOMAIN results
        /\ results[k].item = items[k]
        /\ results[k].is_relevant = FALSE
        /\ results[k].reasoning.kind = (IF responses[j].kind = "text"
                                          THEN "json_parse_error" ELSE "api_error")
        /\ responses[j].kind = "raise" => results[k].reasoning.cause = responses[j].cause
        /\ feed_items = <<>>

C7_Witness ==
  /\ fpc = "done"
  /\ Len(items) = 3
  /\ Len(results) = 3
  /\ responses[1].kind = "raise"

\* C8: filter_relevance_batch returns one result per item, in input order,
\* and the result at index k carries the verdict that the classifier gave at
\* the position of item k in its batch, whatever happened to other batches.
C8_BatchOrdering ==
  /\ Len(results) = Min(i, Len(items))
  /\ \A k \in DOMAIN results : results[k].item = items[k]
  /\ \A j \in DOMAIN responses :
       (VerdictArray(responses[j], Cardinality(BatchRange(j))) /\ responses[j].wrapper # "fence")
       => \A k \in BatchRange(j) :
            /\ results[k].is_relevant = GivenVerdict(responses[j], PosInBatch(k))
            /\ ("reasoning" \in DOMAIN responses[j].body.elems[PosInBatch(k)].d
                  => results[k].reasoning.pos = PosInBatch(k))

C8_Witness ==
  /\ fpc = "done"
  /\ Len(items) = batch_size + 1
  /\ Len(results) = batch_size + 1
  /\ CallFailed(responses[1])
  /\ results[batch_size + 1].is_relevant
  /\ ~results[1].is_relevant

\* C9: a response that is not an array with one element per item of the
\* batch fails the whole batch: all its items are not relevant and no
\* verdict of that response is used.
C9_WrongShapeFailsBatch ==
  \A j \in DOMAIN responses :
    ( /\ responses[j].kind = "text"
      /\ responses[j].body.kind # "invalid"
      /\ ~(responses[j].body.kind = "array"
             /\ Len(responses[j].body.elems) = Cardinality(BatchRange(j))) )
    => \A k \in BatchRange(j) :
         /\ k \in DOMAIN results
         /\ results[k].item = items[k]
         /\ results[k].is_relevant = FALSE
         /\ results[k].reasoning.kind = "api_error"

C9_Witness ==
  /\ fpc = "done"
  /\ Len(items) = 2
  /\ Len(results) = 2
  /\ responses[1].body.kind = "array"
  /\ Len(responses[1].body.elems) = 3
  /\ GivenVerdict(responses[1], 1)

\* C10: a valid verdict array of the right length that is wrapped in a
\* known wrapper (a Markdown code fence) is unwrapped and its verdicts are
\* used; the batch is not treated as failed.
C10_DecoratedOutputTolerated ==
  \A j \in DOMAIN responses :
    (VerdictArray(responses[j], Cardinality(BatchRange(j))) /\ responses[j].wrapper = "fence")
    => \A k \in BatchRange(j) :
         results[k].is_relevant = GivenVerdict(responses[j], PosInBatch(k))

\* The trace alternates external calls and waits and ends with a call.
Paced(t) ==
  /\ \A k \in DOMAIN t : t[k] = (IF k % 2 = 1 THEN "call" ELSE "sleep")
  /\ t # <<>> => t[Len(t)] = "call"

CallsCarrying(k) ==
  {j \in DOMAIN responses : k \in BatchRange(j) /\ responses[j].kind # "not_called"}

C12_NeverRaisesAndCapped ==
  fetch_out.called => (~fetch_out.raised /\ Len(fetch_out.items) <= entries_cap)

\* C12, amended: fetch_feed raises exactly when the FeedFetcher was never
\* entered as a context manager (RuntimeError), and it never returns more
\* items than the per-source cap.
C12_EnteredNeverRaisesAndCapped ==
  fetch_out.called =>
    /\ fetch_out.raised <=> fetch_out.session = "none"
    /\ fetch_out.raised => (fetch_out.exc = "RuntimeError" /\ fetch_out.items = <<>>)
    /\ Len(fetch_out.items) <= entries_cap

C12_Witness ==
  /\ fetch_out.called
  /\ fetch_out.session = "open"
  /\ fetch_in.doc.n > entries_cap
  /\ Len(fetch_out.items) = entries_cap

\* The HTTP exchange failed: no response in time, or a non-2xx response.
HttpFailed(served) ==
  served.http = "timeout" \/ (served.http = "ok" /\ served.status \notin 200..299)

\* C13: a fetch, by an entered FeedFetcher, that times out, is answered
\* non-2xx or whose document fails to parse returns the empty sequence and
\* does not raise.
C13_FailedFetchYieldsEmpty ==
  (fetch_out.called /\ fetch_out.session = "open" /\ (HttpFailed(fetch_in) \/ fetch_in.doc.bozo))
  => (~fetch_out.raised /\ fetch_out.items = <<>>)

\* C28: every item fetch_feed returns comes from an entry with a link, the
\* items are in the order of the document, and within the first entries_cap
\* entries of a document that was fetched every entry that has a link and
\* whose extraction does not fail yields an item.
C28_LinklessEntriesDropped ==
  (fetch_out.called /\ ~fetch_out.raised) =>
    LET its == fetch_out.items
        doc == fetch_in.doc
    IN /\ \A k \in DOMAIN its : its[k].url \in 1..doc.n /\ its[k].url # doc.nolink
       /\ \A j, k \in DOMAIN its : j < k => its[j].url < its[k].url
       /\ (fetch_out.session = "open" /\ fetch_in.url_valid /\ fetch_in.http = "ok"
             /\ fetch_in.status = 200)
          => \A e \in 1..Min(doc.n, entries_cap) :
               (e # doc.nolink /\ e # doc.bad) => \E k \in DOMAIN its : its[k].url = e

C28_Witness ==
  /\ fetch_out.called
  /\ fetch_out.session = "open"
  /\ fetch_in.doc.n = 5
  /\ fetch_in.doc.nolink = 3
  /\ fetch_in.doc.bad = 0
  /\ Len(fetch_out.items) = 4
  /\ fetch_out.items[3].url = 4

(***************************************************************************)
(* Properties of fetch_all_feeds (checked under SpecGather).               *)
(***************************************************************************)
\* The fetch of a source succeeds: the fetcher's session is open, the URL is
\* valid and the source answers 200.
Succeeded(sess, served) ==
  sess = "open" /\ served.url_valid /\ served.http = "ok" /\ served.status = 200

\* C25: for every order in which the tasks finish, a call of fetch_all_feeds
\* that got past its session check returns, without raising, the
\* concatenation in source-list order of the items of the sources whose
\* fetch succeeded, each in the order of its document; the call raises only
\* before any task was started.
C25_GatherIsolatesFailures ==
  /\ gpc = "returned" =>
       /\ ~gather_out.raised
       /\ gather_out.items =
            Concat([k \in DOMAIN gather_in |->
                      IF Succeeded(gather_out.session, gather_in[k])
                        THEN Tagged(extract_items(gather_in[k].doc), k) ELSE <<>>])
  /\ gpc = "raised" => \A k \in DOMAIN tasks : tasks[k] = "pending"

C25_Witness ==
  /\ gpc = "returned"
  /\ Len(done_order) >= 2
  /\ done_order[1] = 2
  /\ task_results[1].items # <<>>
  /\ task_results[2].items # <<>>
  /\ Len(gather_out.items) = Len(task_results[1].items) + Len(task_results[2].items)

(***************************************************************************)
(* Properties of the HTTP surface (checked under SpecApi).                 *)
(***************************************************************************)
\* The request addresses the feed-management surface: GET /feeds-manage or
\* DELETE /api/feeds/{id}.
FeedsManagePage(req) == req.method = "GET" /\ req.path = <<Seg("feeds-manage")>>

DeleteFeed(req, n) == req.method = "DELETE" /\ req.path = <<Seg("api"), Seg("feeds"), IdSeg(n)>>

ManagementRequest(req) ==
  FeedsManagePage(req) \/ \E n \in 1..(MaxFeeds + 1) : DeleteFeed(req, n)

\* C29: every request to the feed-management surface without credentials or
\* with wrong credentials is answered 401 and changes no feed source,
\* whether or not the addressed feed exists.
C29_ManagementRequiresCredentials ==
  [][(response'.handled /\ ManagementRequest(request') /\ request'.cred # "right")
       => (response'.status = 401 /\ feed_sources' = feed_sources)]_vars

\* C30: an authenticated DELETE /api/feeds/{id} for an existing feed source
\* is answered 200 with status 'deleted'; afterwards no feed source has that
\* id and every other feed source is unchanged.
C30_DeleteExistingFeed ==
  [][\A n \in DOMAIN feed_sources :
       (response'.handled /\ DeleteFeed(request', n) /\ request'.cred = "right")
       => /\ response'.status = 200
          /\ response'.body = "deleted"
          /\ n \notin DOMAIN feed_sources'
          /\ \A f \in DOMAIN feed_sources \ {n} :
               f \in DOMAIN feed_sources' /\ feed_sources'[f] = feed_sources[f]]_vars

\* C31: an authenticated DELETE /api/feeds/{id} for an id that matches no
\* feed source is answered 404 with a 'not found' detail and leaves every
\* feed source unchanged.
C31_DeleteMissingFeed ==
  [][\A n \in (1..(MaxFeeds + 1)) \ DOMAIN feed_sources :
       (response'.handled /\ DeleteFeed(request', n) /\ request'.cred = "right")
       => /\ response'.status = 404
          /\ response'.body = "Not Found"
          /\ feed_sources' = feed_sources]_vars

C31_Witness ==
  /\ response.handled
  /\ DeleteFeed(request, MaxFeeds + 1)
  /\ (MaxFeeds + 1) \notin DOMAIN feed_sources
  /\ request.cred = "right"
  /\ response.status = 404

====
